---- MODULE Spec2Model ----
(***************************************************************************)
(* A model of arch-pi-script.py, the Arch Linux post-install provisioning  *)
(* driver.  The script is a straight line of steps; each step shells out   *)
(* through run_command, tests a path, or prompts the operator.  The model  *)
(* keeps the part of the machine the script reads and writes (log files,   *)
(* SSH key pair, Oh My Zsh and Neovim directories, .zshrc, kitty.conf,     *)
(* login shell, git identity), the clock behind `date`, and the record of  *)
(* what each run did.  A command whose executable is installed exits 0 or  *)
(* non-zero as the environment decides; one whose executable is missing    *)
(* makes subprocess.run raise FileNotFoundError.                           *)
(***************************************************************************)
EXTENDS Integers, Sequences, FiniteSets, TLC

\* ------------------------------------------------------------------ bounds

\* Runs of the script in succession.
MaxRuns == 2
\* The last second `date` can report; the first is 0.
MaxTime == 1
\* Characters in the operator's answer to the application menu.
MaxInputLen == 4
\* Commands, over all runs, that exit non-zero although they could have exited 0.
MaxFailures == 1

\* --------------------------------------------------------- program data

Absent == "absent"
Unset == "unset"

\* subprocess.run(check=True): exit 0, CalledProcessError, FileNotFoundError.
Outcomes == {"ok", "fail", "notfound"}

commandList ==
  << "base-devel", "git", "gcc", "make", "clang", "cargo", "just", "curl",
     "wget", "unzip", "unrar", "p7zip", "xclip", "wl-clipboard" >>

font_command_list == << "inter-font", "ttf-jetbrains-mono-nerd", "ttf-firacode-nerd" >>

terminal_command_list ==
  << "kitty", "zoxide", "eza", "fzf", "bat", "micro", "fastfetch", "fd",
     "ripgrep", "yazi", "btop", "bash-completion", "starship" >>

native_apps ==
  << "firefox", "vlc", "virtualbox", "handbrake", "qbittorrent", "toolbox",
     "distrobox", "libreoffice-fresh", "featherpad", "foliate" >>

ISTEST == TRUE

PlaceholderName == "entish84"
PlaceholderEmail == "entishthoughts@outlook.com"

\* The files the script copies or executes from the working directory.
RequiredFiles == {"zshrc", "kitty.conf", "current-theme.conf", "neovimInit.sh", "gnomeConfig.sh"}

\* The marker searched for in .zshrc, and the line appended when it is absent.
PathMarker == "PATH=$PATH:$HOME/.local/bin"
PathLine == "export " \o PathMarker

\* ------------------------------------------------------------------ state

VARIABLES
  pc,           \* the step the running script is at; "idle", "done", "crashed" between runs
  idx,          \* loop index of the install loop in progress
  run,          \* number of runs started
  now,          \* the second `date` last reported
  wd,           \* files present in the working directory
  tmplHasPath,  \* whether the zshrc template already holds the PATH marker
  environ,      \* os.environ: USER, SUDO_USER, XDG_CURRENT_DESKTOP
  gnomeShell,   \* whether gnome-shell resolves on the search path
  logCur,       \* logs/arch-pi-script.log: Absent, "empty", or whose lines it holds
  logRot,       \* logs/arch-pi-script.log_<timestamp>, by timestamp
  fs,           \* the user's files and account, as the script reads and writes them
  issued,       \* kinds of command issued and file operations done in this run
  results,      \* the run_command results of the step just taken
  logged,       \* the messages the step just taken wrote to the log
  prompts,      \* prompts shown to the operator in this run
  git_identity, \* the script's git_user_name and git_user_email
  user_input,   \* what the operator typed at the prompt last shown in this run
  user_selection, \* the operator's (stripped) answer to the application menu
  selected_apps,  \* the applications chosen from native_apps
  fault,        \* the uncaught exception that ended the run, or "none"
  nonzero,      \* some command of this run exited non-zero
  cleanSoFar,   \* no command of any run so far failed, bar clones of what is there
  failures,     \* commands so far that failed although they could have succeeded
  prevDone,     \* the previous run reached the end of the script
  did,          \* how often each guarded mutation was performed, over all runs
  found,        \* what each conditional step of this run found in place: the key
                \* for "ssh-keygen", else "present" or Absent; "unreached" before
  lost,         \* log content destroyed by a rename over an existing file
  earlier       \* the versions of .zshrc and of kitty.conf that were renamed away

vars ==
  << pc, idx, run, now, wd, tmplHasPath, environ, gnomeShell, logCur, logRot,
     fs, issued, results, logged, prompts, git_identity, user_selection,
     selected_apps, fault, nonzero, cleanSoFar, failures, prevDone, did, found, lost,
     user_input, earlier >>

\* What a step of the script proper never touches.
session == << run, now, tmplHasPath, environ, gnomeShell, logRot, lost, prevDone, earlier >>

\* What only the prompts touch.
answers == << prompts, git_identity, user_input, user_selection, selected_apps >>

Times == 0..MaxTime

NoIdentity == [name |-> Unset, email |-> Unset]

\* What the operator would type at the name and e-mail prompts.
OperatorIdentities == { [name |-> "alice", email |-> "alice@example.org"] }

KeygenCmd == "ssh-keygen -t ed25519"
SshAddCmd == "echo $SSH_AGENT_PID && ssh-add"
ChshCmd == "chsh -s /bin/zsh"
PluginCloneCmd == "git clone zsh plugin"
LazyVimCloneCmd == "git clone LazyVim/starter"

\* The steps the script puts behind an existence check.
GuardedSteps == {"ssh-keygen", "oh-my-zsh", "lazyvim", "path-append"}

\* The steps whose effect may already be in place when they are reached.
ConditionalSteps == GuardedSteps \cup {"chsh"}

Present(b) == IF b THEN "present" ELSE Absent

\* ------------------------------------------------------- pure functions

\* os.environ.get("USER", "default_user")
current_username ==
  IF environ.USER # Unset THEN environ.USER ELSE "default_user"

Home == "/home/" \o current_username

ssh_key_path == Home \o "/.ssh/id_ed25519"

zshrc_path == Home \o "/.zshrc"

\* The zshrc template as `cp zshrc ~/.zshrc` leaves it.
TemplateZshrc ==
  IF tmplHasPath THEN << "template", PathLine >> ELSE << "template" >>

\* "PATH=$PATH:$HOME/.local/bin" in zshrc_content
HasPathMarker(content) ==
  \E i \in DOMAIN content : content[i] = PathLine

\* ------------------------------------------- strings, as Python treats them

\* A string typed by the operator is a sequence of characters.
AsciiDigits == {"0", "1", "2", "3", "4", "5", "6", "7", "8", "9"}

\* Characters for which str.isdigit() is true and int() raises ValueError.
SuperscriptDigits == {"²"}

IsSpace(ch) == ch = " "

RECURSIVE LStrip(_)
LStrip(str) ==
  IF str # << >> /\ IsSpace(Head(str)) THEN LStrip(Tail(str)) ELSE str

RECURSIVE RStrip(_)
RStrip(str) ==
  IF str # << >> /\ IsSpace(str[Len(str)])
    THEN RStrip(SubSeq(str, 1, Len(str) - 1))
    ELSE str

\* str.strip()
Strip(str) == RStrip(LStrip(str))

LowerChar(ch) ==
  CASE ch = "A" -> "a"
    [] ch = "L" -> "l"
    [] ch = "Y" -> "y"
    [] ch = "N" -> "n"
    [] OTHER -> ch

\* A script that compares the answer as typed, without str.lower().
NoLower(str) == str

\* str.lower()
Lower(str) == [i \in DOMAIN str |-> LowerChar(str[i])]

\* str.split(","): the pieces between the commas, empty ones included.
RECURSIVE Split(_)
Split(str) ==
  IF \E i \in DOMAIN str : str[i] = ","
    THEN LET i == CHOOSE k \in DOMAIN str :
                    str[k] = "," /\ \A j \in 1..(k - 1) : str[j] # ","
         IN << SubSeq(str, 1, i - 1) >> \o Split(SubSeq(str, i + 1, Len(str)))
    ELSE << str >>

\* str.isdigit(): non-empty and every character a digit, superscripts included.
IsDigit(str) ==
  str # << >> /\ \A i \in DOMAIN str : str[i] \in AsciiDigits \cup SuperscriptDigits

DigitValue(ch) ==
  CASE ch = "0" -> 0 [] ch = "1" -> 1 [] ch = "2" -> 2 [] ch = "3" -> 3
    [] ch = "4" -> 4 [] ch = "5" -> 5 [] ch = "6" -> 6 [] ch = "7" -> 7
    [] ch = "8" -> 8 [] ch = "9" -> 9

\* int(str) raises ValueError unless every character is a decimal digit.
IntRaises(str) ==
  str = << >> \/ \E i \in DOMAIN str : str[i] \notin AsciiDigits

\* int(str) for a string of decimal digits.
RECURSIVE int(_)
int(str) ==
  IF str = << >> THEN 0
  ELSE 10 * int(SubSeq(str, 1, Len(str) - 1)) + DigitValue(str[Len(str)])

\* x.strip().isdigit() and 0 < int(x.strip()) <= len(native_apps)
TokenSelects(x) ==
  IsDigit(Strip(x)) /\ 0 < int(Strip(x)) /\ int(Strip(x)) <= Len(native_apps)

\* Line 391 raises ValueError at the first token that passes isdigit() and
\* that int() rejects.
SelectionRaises(selection) ==
  \E i \in DOMAIN Split(selection) :
    IsDigit(Strip(Split(selection)[i])) /\ IntRaises(Strip(Split(selection)[i]))

RECURSIVE Indices(_)
Indices(tokens) ==
  IF tokens = << >> THEN << >>
  ELSE (IF TokenSelects(Head(tokens)) THEN << int(Strip(Head(tokens))) - 1 >> ELSE << >>)
         \o Indices(Tail(tokens))

\* Lines 388-392: the applications the (stripped) answer selects.
SelectedApps(selection) ==
  IF Lower(selection) = << "a", "l", "l" >>
    THEN native_apps
    ELSE LET selected_indices == Indices(Split(selection))
         IN [k \in DOMAIN selected_indices |-> native_apps[selected_indices[k] + 1]]

\* ------------------------------------------------------------ run_command

\* The executables a package puts on the search path.
Provides(pkg) ==
  CASE pkg = "git" -> {"git"}
    [] pkg = "curl" -> {"curl"}
    [] pkg = "openssh" -> {"ssh", "ssh-keygen"}
    [] pkg = "zsh" -> {"zsh"}
    [] pkg = "starship" -> {"starship"}
    [] pkg = "neovim tree-sitter-cli" -> {"nvim"}
    [] pkg = "flatpak" -> {"flatpak"}
    [] OTHER -> {}

\* What subprocess.run can do with a program run by name: FileNotFoundError
\* when it is not on the search path, else exit 0 (if `possible`) or non-zero.
ExecOutcomes(bins, program, possible) ==
  IF program \notin bins THEN {"notfound"}
  ELSE IF possible THEN {"ok", "fail"}
  ELSE {"fail"}

\* A program every installation has (sudo, pacman, sh, bash, cp, rm, echo):
\* it runs, and exits 0 (if `possible`) or non-zero.
CoreOutcomes(possible) == IF possible THEN {"ok", "fail"} ELSE {"fail"}

\* A command: its program and verb (c), what it is applied to (a), its
\* outcome (o), whether the machine's state left it that one outcome
\* (forced), and whether that is because what it creates is already there
\* (benign).
CmdOn(c, a, o) == [c |-> c, a |-> a, o |-> o, forced |-> FALSE, benign |-> FALSE]

\* A command that can exit 0 only if `possible`.
CmdIf(possible, c, a, o) ==
  [c |-> c, a |-> a, o |-> o, forced |-> ~possible, benign |-> FALSE]

Cmd(c, o) == CmdOn(c, "", o)

\* A command whose executable is missing raises FileNotFoundError, which
\* run_command does not catch: the commands after it are never issued.
FirstNotFound(cmds) ==
  IF \E i \in DOMAIN cmds : cmds[i].o = "notfound"
    THEN CHOOSE i \in DOMAIN cmds :
           /\ cmds[i].o = "notfound"
           /\ \A j \in 1..(i - 1) : cmds[j].o # "notfound"
    ELSE 0

Crashes(cmds) == FirstNotFound(cmds) # 0

Ran(cmds) ==
  IF Crashes(cmds) THEN SubSeq(cmds, 1, FirstNotFound(cmds)) ELSE cmds

\* Command i of the step returned (with exit 0 or as a CalledProcessError).
Returned(cmds, i) == i \in DOMAIN Ran(cmds) /\ cmds[i].o # "notfound"

\* Command i of the step ran and exited 0.
Succeeded(cmds, i) == i \in DOMAIN Ran(cmds) /\ cmds[i].o = "ok"

\* The bookkeeping of a step that issues `cmds` in order: `pre` is logged
\* before the first command, post[i] once command i has returned.
\* `ops` are the file operations the step does itself before them.
Step(ops, cmds, pre, post, next) ==
  LET ran == Ran(cmds) IN
  /\ issued' = issued \cup ops \cup {ran[i].c : i \in DOMAIN ran}
  /\ results' = ran
  /\ logged' = pre
                 \cup UNION {post[i] : i \in {j \in DOMAIN cmds : Returned(cmds, j)}}
  /\ nonzero' = (nonzero \/ \E i \in DOMAIN ran : ran[i].o = "fail")
  /\ cleanSoFar' = (cleanSoFar /\ \A i \in DOMAIN ran : ran[i].o = "ok" \/ ran[i].benign)
  /\ failures' = failures + Cardinality({i \in DOMAIN ran : ran[i].o # "ok" /\ ~ran[i].forced})
  /\ failures' <= MaxFailures
  /\ fault' = IF Crashes(cmds) THEN "FileNotFoundError: executable" ELSE fault
  /\ pc' = IF Crashes(cmds) THEN "crashed" ELSE next

run_command(cmds, pre, post, next) == Step({}, cmds, pre, post, next)

\* A step without commands: only messages and the move to the next step.
Advance(msgs, next) ==
  /\ logged' = msgs
  /\ pc' = next
  /\ results' = << >>
  /\ UNCHANGED << issued, nonzero, cleanSoFar, failures, fault >>

\* An uncaught exception other than a missing executable.
Raise(exc, msgs) ==
  /\ fault' = exc
  /\ pc' = "crashed"
  /\ logged' = msgs
  /\ results' = << >>
  /\ UNCHANGED << issued, nonzero, cleanSoFar, failures >>

\* ------------------------------------------------------------------ Init

\* os.environ and the search path of the session that starts the script.
Environments ==
  { [USER |-> "alice", SUDO_USER |-> Unset, XDG_CURRENT_DESKTOP |-> "GNOME", gnomeShell |-> TRUE],
    [USER |-> "root", SUDO_USER |-> "alice", XDG_CURRENT_DESKTOP |-> "", gnomeShell |-> TRUE],
    [USER |-> Unset, SUDO_USER |-> Unset, XDG_CURRENT_DESKTOP |-> "KDE", gnomeShell |-> FALSE] }

\* The working directory: which auxiliary files are there, and whether the
\* zshrc template carries the PATH marker.
WorkingDirs ==
  { [files |-> RequiredFiles, tmplHasPath |-> FALSE],
    [files |-> RequiredFiles, tmplHasPath |-> TRUE],
    [files |-> RequiredFiles \ {"zshrc"}, tmplHasPath |-> FALSE],
    [files |-> RequiredFiles \ {"neovimInit.sh", "kitty.conf"}, tmplHasPath |-> FALSE] }

NoBackups == [t \in Times |-> Absent]

\* A freshly installed machine.
FreshMachine ==
  [ sshKey |-> Absent,        \* ~/.ssh/id_ed25519: Absent, "pre" (there before), or its comment
    sshPub |-> FALSE,         \* ~/.ssh/id_ed25519.pub exists
    gitUser |-> NoIdentity,   \* git config --global user.name / user.email
    bins |-> {"curl", "yay"}, \* executables on the search path, of those the script runs by name
    flathub |-> FALSE,        \* the flathub remote is configured
    omzDir |-> FALSE,         \* ~/.oh-my-zsh exists
    loginShell |-> "bash",    \* the user's login shell
    plugins |-> {},           \* the plugins cloned under ~/.oh-my-zsh/custom/plugins
    nvimDir |-> Absent,       \* ~/.config/nvim: Absent, "with.git", "plain"
    miseBin |-> FALSE,        \* ~/.local/bin/mise exists
    zshrc |-> Absent,         \* ~/.zshrc: Absent or its lines
    zshrcBak |-> NoBackups,   \* ~/.zshrc.backup<timestamp>, by timestamp
    kittyConf |-> Absent,     \* ~/.config/kitty/kitty.conf: Absent or its lines
    kittyBak |-> NoBackups ]  \* kitty.conf.backup<timestamp>, by timestamp

\* The machine before the first run: freshly installed (with the AUR helper
\* the script calls), set up by hand without the AUR helper, or set up by hand
\* with most of what the script installs.
Machines ==
  { FreshMachine,
    [FreshMachine EXCEPT !.sshKey = "pre", !.sshPub = TRUE,
                         !.bins = {"curl", "git", "ssh", "ssh-keygen", "zsh"},
                         !.loginShell = "zsh", !.zshrc = << "user" >>],
    [FreshMachine EXCEPT !.sshKey = "pre", !.sshPub = TRUE,
                         !.bins = {"curl", "yay", "git", "ssh", "ssh-keygen", "zsh", "flatpak"},
                         !.omzDir = TRUE, !.zshrc = << "user", PathLine >>,
                         !.kittyConf = << "user" >>] }

Init ==
  /\ pc = "idle"
  /\ idx = 0
  /\ run = 0
  /\ now = 0
  /\ \E w \in WorkingDirs :
       /\ wd = w.files
       /\ tmplHasPath = w.tmplHasPath
  /\ \E e \in Environments :
       /\ environ = [v \in {"USER", "SUDO_USER", "XDG_CURRENT_DESKTOP"} |-> e[v]]
       /\ gnomeShell = e.gnomeShell
  /\ fs \in Machines
  /\ logCur = IF fs.sshKey = Absent THEN Absent ELSE "run0"
  /\ logRot = NoBackups
  /\ issued = {}
  /\ results = << >>
  /\ logged = {}
  /\ prompts = << >>
  /\ git_identity = NoIdentity
  /\ user_selection = << >>
  /\ selected_apps = << >>
  /\ fault = "none"
  /\ nonzero = FALSE
  /\ cleanSoFar = TRUE
  /\ failures = 0
  /\ prevDone = FALSE
  /\ did = [s \in GuardedSteps |-> 0]
  /\ found = [s \in ConditionalSteps |-> "unreached"]
  /\ lost = {}
  /\ user_input = << >>
  /\ earlier = [zshrc |-> {}, kitty |-> {}]

\* ------------------------------------------------------------- the clock

\* `date +%Y%m%d-%H%M%S`: a second no earlier than the one last read.
date == now..MaxTime

\* ------------------------------------------------------------- log setup

\* The content a log file holds: the run that wrote it, once it wrote a line.
LogOf(r) == "run" \o ToString(r)

\* Lines 31-40: rotate an existing log to <logfile>_<timestamp>, then truncate.
\* os.rename replaces an existing destination.
LogSetup ==
  /\ pc \in {"idle", "done", "crashed"}
  /\ run < MaxRuns
  /\ run' = run + 1
  /\ prevDone' = (pc = "done")
  /\ IF logCur # Absent
       THEN \E timestamp \in date :
              /\ now' = timestamp
              /\ logRot' = [logRot EXCEPT ![timestamp] = logCur]
              /\ lost' = lost \cup ({logRot[timestamp]} \ {Absent, "empty"})
       ELSE UNCHANGED << now, logRot, lost >>
  /\ logCur' = "empty"
  /\ pc' = "SystemUpdate"
  /\ idx' = 0
  /\ issued' = IF logCur # Absent THEN {"os.rename log"} ELSE {}
  /\ results' = << >>
  /\ logged' = {}
  /\ prompts' = << >>
  /\ git_identity' = NoIdentity
  /\ user_input' = << >>
  /\ user_selection' = << >>
  /\ selected_apps' = << >>
  /\ fault' = "none"
  /\ nonzero' = FALSE
  /\ UNCHANGED << wd, tmplHasPath, environ, gnomeShell, fs, cleanSoFar, failures, did, earlier >>
  /\ found' = [s \in ConditionalSteps |-> "unreached"]

\* write_log appends to the canonical log file.
write_log == logCur' = LogOf(run)

\* ----------------------------------------------------------- the steps

\* Lines 44-50: pacman -Syu, yay -Syu, then the user name is logged.
SystemUpdate ==
  /\ pc = "SystemUpdate"
  /\ \E o1 \in CoreOutcomes(TRUE), o2 \in CoreOutcomes("yay" \in fs.bins) :
       LET cmds == << Cmd("pacman -Syu", o1),
                      CmdIf("yay" \in fs.bins, "yay -Syu", "", o2) >> IN
       /\ run_command(cmds, {}, << {}, {"Current username: " \o current_username} >>, "DevTools")
  /\ write_log
  /\ idx' = 1
  /\ UNCHANGED << session, answers, wd, fs, did, found >>

\* One iteration of a `for pkg in list: run_command(pacman -S pkg)` loop;
\* msgs[i] is what the loop body logs after the command, whatever its exit,
\* and `after` what is logged once the loop is over.
InstallLoop(step, list, msgs, after, next) ==
  /\ pc = step
  /\ idx \in DOMAIN list
  /\ \E o \in CoreOutcomes(TRUE) :
       /\ run_command(<< CmdOn("pacman -S", list[idx], o) >>, {},
                      << msgs[idx] \cup (IF idx = Len(list) THEN after ELSE {}) >>,
                      IF idx = Len(list) THEN next ELSE step)
       /\ fs' = [fs EXCEPT !.bins = IF o = "ok" THEN @ \cup Provides(list[idx]) ELSE @]
  /\ idx' = IF idx = Len(list) THEN 0 ELSE idx + 1
  /\ UNCHANGED << session, answers, wd, logCur, did, found >>

DevToolsMsg ==
  [i \in DOMAIN commandList |-> {"Installed " \o commandList[i] \o " successfully."}]

NoMsg(list) == [i \in DOMAIN list |-> {}]

\* Lines 54-64.
DevTools == InstallLoop("DevTools", commandList, DevToolsMsg, {}, "GitIdentity")

\* Lines 68-82: the identity is the placeholder when ISTEST, else prompted for.
GitIdentity ==
  /\ pc = "GitIdentity"
  /\ \E id \in (IF ISTEST
                  THEN {[name |-> PlaceholderName, email |-> PlaceholderEmail]}
                  ELSE OperatorIdentities),
        o1, o2 \in ExecOutcomes(fs.bins, "git", TRUE) :
       LET cmds == << CmdIf("git" \in fs.bins, "git config --global", "user.name", o1),
                      CmdIf("git" \in fs.bins, "git config --global", "user.email", o2) >> IN
       /\ git_identity' = id
       /\ prompts' = IF ISTEST
                       THEN prompts
                       ELSE prompts \o << "Enter your GIT user name: ",
                                          "Enter your GIT user email: " >>
       /\ run_command(cmds, {}, << {}, {"Configured GIT successfully."} >>, "SshCheck")
       /\ fs' = [fs EXCEPT !.gitUser =
                   [name |-> IF Succeeded(cmds, 1) THEN id.name ELSE @.name,
                    email |-> IF Succeeded(cmds, 2) THEN id.email ELSE @.email]]
  /\ UNCHANGED << session, idx, wd, logCur, user_input, user_selection, selected_apps,
                  did, found >>

\* Lines 86-96: `which ssh` decides whether openssh is installed.
SshCheck ==
  /\ pc = "SshCheck"
  /\ IF "ssh" \in fs.bins
       THEN /\ Advance({"Checked for SSH installation successfully."}, "SshKeygen")
            /\ UNCHANGED fs
       ELSE \E o \in CoreOutcomes(TRUE) :
              /\ run_command(<< CmdOn("pacman -S", "openssh", o) >>, {},
                             << {"Successfully installed SSH.",
                                 "Checked for SSH installation successfully."} >>,
                             "SshKeygen")
              /\ fs' = [fs EXCEPT !.bins = IF o = "ok" THEN @ \cup Provides("openssh") ELSE @]
  /\ UNCHANGED << session, answers, idx, wd, logCur, did, found >>

\* A script without the check of line 110: the key is always generated.
NoSshKeyGuard(key) == FALSE

\* if os.path.exists(ssh_key_path)
SshKeyGuard(key) == key # Absent

\* Lines 100-119: generate the key pair unless the private key is there.
SshKeygen ==
  /\ pc = "SshKeygen"
  /\ IF SshKeyGuard(fs.sshKey)
       THEN /\ Advance({"SSH key already exists, skipping generation."}, "ReadPubKey")
            /\ UNCHANGED << fs, did >>
       ELSE \E o1 \in ExecOutcomes(fs.bins, "ssh-keygen", TRUE), o2 \in CoreOutcomes(TRUE) :
              LET cmds == << CmdIf("ssh-keygen" \in fs.bins, KeygenCmd, ssh_key_path, o1),
                             Cmd(SshAddCmd, o2) >> IN
              /\ run_command(cmds, {},
                             << {}, {"Successfully generated SSH keys and added them to the ssh-agent."} >>,
                             "ReadPubKey")
              /\ fs' = IF o1 = "ok"
                         THEN [fs EXCEPT !.sshKey = git_identity.email, !.sshPub = TRUE]
                         ELSE fs
              /\ did' = [did EXCEPT !["ssh-keygen"] = @ + 1]
  /\ found' = [found EXCEPT !["ssh-keygen"] = fs.sshKey]
  /\ UNCHANGED << session, answers, idx, wd, logCur >>

\* Lines 121-127: open(f"{ssh_key_path}.pub") raises when the file is missing.
ReadPubKey ==
  /\ pc = "ReadPubKey"
  /\ IF fs.sshPub
       THEN Advance({"Displaying SSH public key for GIT"}, "Fonts")
       ELSE Raise("FileNotFoundError: open", {})
  /\ idx' = 1
  /\ UNCHANGED << session, answers, wd, fs, logCur, did, found >>

\* Lines 131-140.
Fonts ==
  InstallLoop("Fonts", font_command_list, NoMsg(font_command_list), {"Successfully installed fonts."}, "ZshInstall")

\* Lines 144-157: install zsh unless /bin/zsh or /usr/bin/zsh is there.
ZshInstall ==
  /\ pc = "ZshInstall"
  /\ IF "zsh" \in fs.bins
       THEN /\ Advance({"Zsh is already installed, skipping installation."}, "OhMyZsh")
            /\ UNCHANGED fs
       ELSE \E o \in CoreOutcomes(TRUE) :
              /\ run_command(<< CmdOn("pacman -S", "zsh", o) >>, {},
                             << {"Successfully installed Zsh."} >>, "OhMyZsh")
              /\ fs' = [fs EXCEPT !.bins = IF o = "ok" THEN @ \cup Provides("zsh") ELSE @]
  /\ UNCHANGED << session, answers, idx, wd, logCur, did, found >>

\* if os.path.exists(ohmyzsh_dir)
OhMyZshGuard(dir) == dir

\* Lines 159-168: run the Oh My Zsh installer unless ~/.oh-my-zsh is there.
OhMyZsh ==
  /\ pc = "OhMyZsh"
  /\ IF OhMyZshGuard(fs.omzDir)
       THEN /\ Advance({"Oh My Zsh is already installed, skipping installation."}, "Chsh")
            /\ UNCHANGED << fs, did >>
       ELSE \E o \in CoreOutcomes(TRUE) :
              /\ run_command(<< Cmd("bash -c ohmyzsh/install.sh --unattended", o) >>, {},
                             << {"Successfully installed Oh My Zsh."} >>, "Chsh")
              /\ fs' = [fs EXCEPT !.omzDir = (o = "ok")]
              /\ did' = [did EXCEPT !["oh-my-zsh"] = @ + 1]
  /\ found' = [found EXCEPT !["oh-my-zsh"] = Present(fs.omzDir)]
  /\ UNCHANGED << session, answers, idx, wd, logCur >>

\* Lines 170-173: chsh is run on every run; it can only succeed with zsh installed.
Chsh ==
  /\ pc = "Chsh"
  /\ \E o \in CoreOutcomes("zsh" \in fs.bins) :
       /\ run_command(<< CmdIf("zsh" \in fs.bins, ChshCmd, current_username, o) >>, {},
                      << {"Successfully installed Zsh and Oh My Zsh, and set Zsh as the default shell."} >>,
                      "TerminalTools")
       /\ fs' = [fs EXCEPT !.loginShell = IF o = "ok" THEN "zsh" ELSE @]
  /\ found' = [found EXCEPT !["chsh"] = Present(fs.loginShell = "zsh")]
  /\ idx' = 1
  /\ UNCHANGED << session, answers, wd, logCur, did >>

\* Lines 177-186.
TerminalTools ==
  InstallLoop("TerminalTools", terminal_command_list, NoMsg(terminal_command_list),
              {"Successfully installed terminal and utilities."}, "Starship")

\* Lines 190-199.
Starship ==
  /\ pc = "Starship"
  /\ \E o \in ExecOutcomes(fs.bins, "starship", TRUE) :
       run_command(<< CmdIf("starship" \in fs.bins, "starship preset pure-preset", "", o) >>, {},
                   << {"Successfully configured Starship theme with the pure-preset."} >>,
                   "ZshPlugins")
  /\ UNCHANGED << session, answers, idx, wd, fs, logCur, did, found >>

\* git clone into a directory that is already there exits non-zero.
CloneOutcomes(bins, there) == ExecOutcomes(bins, "git", ~there)

PluginNames ==
  << "zsh-autosuggestions", "zsh-syntax-highlighting", "zsh-autocomplete",
     "zsh-history-substring-search" >>

PluginClone(name, o) ==
  [c |-> PluginCloneCmd, a |-> name, o |-> o,
   forced |-> (name \in fs.plugins \/ "git" \notin fs.bins),
   benign |-> (name \in fs.plugins /\ "git" \in fs.bins)]

\* Lines 203-219: the four plugins are cloned on every run; a clone creates
\* the directories above its target, ~/.oh-my-zsh among them.
ZshPlugins ==
  /\ pc = "ZshPlugins"
  /\ \E o1 \in CloneOutcomes(fs.bins, PluginNames[1] \in fs.plugins),
        o2 \in CloneOutcomes(fs.bins, PluginNames[2] \in fs.plugins),
        o3 \in CloneOutcomes(fs.bins, PluginNames[3] \in fs.plugins),
        o4 \in CloneOutcomes(fs.bins, PluginNames[4] \in fs.plugins) :
       LET cmds == << PluginClone(PluginNames[1], o1), PluginClone(PluginNames[2], o2),
                      PluginClone(PluginNames[3], o3), PluginClone(PluginNames[4], o4) >>
           cloned == {PluginNames[i] : i \in {j \in DOMAIN cmds : Succeeded(cmds, j)}}
       IN
       /\ run_command(cmds, {}, << {}, {}, {}, {"Successfully installed Zsh plugins"} >>,
                      "NeovimInstall")
       /\ fs' = [fs EXCEPT !.plugins = @ \cup cloned,
                           !.omzDir = (@ \/ cloned # {})]
  /\ UNCHANGED << session, answers, idx, wd, logCur, did, found >>

\* Lines 223-227.
NeovimInstall ==
  /\ pc = "NeovimInstall"
  /\ \E o \in CoreOutcomes(TRUE) :
       /\ run_command(<< CmdOn("pacman -S", "neovim tree-sitter-cli", o) >>, {},
                      << {"Successfully installed Neovim and tree-sitter-cli."} >>,
                      "LazyVimClone")
       /\ fs' = [fs EXCEPT !.bins = IF o = "ok"
                                      THEN @ \cup Provides("neovim tree-sitter-cli")
                                      ELSE @]
  /\ UNCHANGED << session, answers, idx, wd, logCur, did, found >>

\* if not os.path.exists(lazyvim_config_dir): the guard is that it exists.
LazyVimGuard(dir) == dir # Absent

\* Lines 228-233: clone the LazyVim starter unless ~/.config/nvim is there;
\* the "Successfully cloned" line is logged either way.
LazyVimClone ==
  /\ pc = "LazyVimClone"
  /\ IF LazyVimGuard(fs.nvimDir)
       THEN /\ Advance({"Successfully cloned LazyVim configuration."}, "LazyVimRemoveGit")
            /\ UNCHANGED << fs, did >>
       ELSE \E o \in CloneOutcomes(fs.bins, FALSE) :
              /\ run_command(<< CmdIf("git" \in fs.bins, LazyVimCloneCmd, "", o) >>, {},
                             << {"Successfully cloned LazyVim configuration."} >>,
                             "LazyVimRemoveGit")
              /\ fs' = [fs EXCEPT !.nvimDir = IF o = "ok" THEN "with.git" ELSE @]
              /\ did' = [did EXCEPT !["lazyvim"] = @ + 1]
  /\ found' = [found EXCEPT !["lazyvim"] = Present(fs.nvimDir # Absent)]
  /\ UNCHANGED << session, answers, idx, wd, logCur >>

\* Lines 234-239: rm -rf ~/.config/nvim/.git when it is there.
LazyVimRemoveGit ==
  /\ pc = "LazyVimRemoveGit"
  /\ IF fs.nvimDir = "with.git"
       THEN \E o \in CoreOutcomes(TRUE) :
              /\ run_command(<< Cmd("rm -rf .config/nvim/.git", o) >>, {},
                             << {"Removed .git directory from LazyVim configuration."} >>,
                             "NeovimSync")
              /\ fs' = [fs EXCEPT !.nvimDir = IF o = "ok" THEN "plain" ELSE @]
       ELSE /\ Advance({"Removed .git directory from LazyVim configuration."}, "NeovimSync")
            /\ UNCHANGED fs
  /\ UNCHANGED << session, answers, idx, wd, logCur, did, found >>

\* Lines 240-243.
NeovimSync ==
  /\ pc = "NeovimSync"
  /\ \E o \in ExecOutcomes(fs.bins, "nvim", TRUE) :
       run_command(<< CmdIf("nvim" \in fs.bins, "nvim --headless +Lazy! sync", "", o) >>, {},
                   << {"Successfully installed Neovim and set up LazyVim configuration"} >>,
                   "Mise")
  /\ UNCHANGED << session, answers, idx, wd, fs, logCur, did, found >>

\* Lines 247-254: download the mise installer into the working directory, run it.
Mise ==
  /\ pc = "Mise"
  /\ \E o1 \in ExecOutcomes(fs.bins, "curl", TRUE), o2 \in {"ok", "fail"} :
       LET installer == "mise-install.sh" \in wd \/ o1 = "ok"
           cmds == << CmdIf("curl" \in fs.bins, "curl https://mise.run -o mise-install.sh", "", o1),
                      CmdIf(installer, "sh mise-install.sh", "", o2) >> IN
       /\ o2 \in CoreOutcomes(installer)
       /\ wd' = IF Succeeded(cmds, 1) THEN wd \cup {"mise-install.sh"} ELSE wd
       /\ run_command(cmds, {}, << {}, {"Successfully installed mise."} >>, "ZshrcReplace")
       /\ fs' = [fs EXCEPT !.miseBin = (@ \/ Succeeded(cmds, 2))]
  /\ UNCHANGED << session, answers, idx, logCur, did, found >>

\* os.rename(path, backup_path): the backup named by the timestamp is
\* replaced when it is there already.
BackedUp(backups, timestamp, content) == [backups EXCEPT ![timestamp] = content]

\* Lines 260-272: move an existing .zshrc to a backup, copy the template over,
\* then source it in zsh.
ZshrcReplace ==
  /\ pc = "ZshrcReplace"
  /\ \E timestamp \in date, o1 \in CoreOutcomes("zshrc" \in wd),
        o2 \in ExecOutcomes(fs.bins, "zsh", TRUE) :
       LET renamed == fs.zshrc # Absent
           cmds == << CmdIf("zshrc" \in wd, "cp zshrc", zshrc_path, o1),
                      CmdIf("zsh" \in fs.bins, "zsh -c source .zshrc && which mise", "", o2) >>
       IN
       /\ now' = IF renamed THEN timestamp ELSE now
       /\ renamed \/ timestamp = now
       /\ Step(IF renamed THEN {"os.rename .zshrc"} ELSE {}, cmds, {},
               << {"Successfully configured Zsh with custom .zshrc."}, {} >>, "PathAppend")
       /\ fs' = [fs EXCEPT
                   !.zshrcBak = IF renamed THEN BackedUp(@, timestamp, fs.zshrc) ELSE @,
                   !.zshrc = IF o1 = "ok" THEN TemplateZshrc ELSE Absent]
       /\ earlier' = [earlier EXCEPT !.zshrc = IF renamed THEN @ \cup {fs.zshrc} ELSE @]
  /\ UNCHANGED << run, tmplHasPath, environ, gnomeShell, logRot, lost, prevDone,
                  answers, idx, wd, logCur, did, found >>

\* if "PATH=$PATH:$HOME/.local/bin" not in zshrc_content: the guard is that it is.
PathGuard(content) == HasPathMarker(content)

\* Lines 275-288: read .zshrc (open raises when it is missing) and append the
\* PATH line unless the marker is in it.
PathAppend ==
  /\ pc = "PathAppend"
  /\ IF fs.zshrc = Absent
       THEN /\ Raise("FileNotFoundError: open", {})
            /\ UNCHANGED << fs, did >>
       ELSE IF PathGuard(fs.zshrc)
         THEN /\ Advance({"mise path is already added to the environment variable PATH in .zshrc."},
                         "MiseTools")
              /\ UNCHANGED << fs, did >>
         ELSE /\ logged' = {"Added mise path to the environment variable PATH in .zshrc."}
              /\ pc' = "MiseTools"
              /\ results' = << >>
              /\ issued' = issued \cup {"append .zshrc"}
              /\ fs' = [fs EXCEPT !.zshrc = Append(@, PathLine)]
              /\ did' = [did EXCEPT !["path-append"] = @ + 1]
              /\ UNCHANGED << nonzero, cleanSoFar, failures, fault >>
  /\ found' = [found EXCEPT !["path-append"] =
                  Present(fs.zshrc # Absent /\ HasPathMarker(fs.zshrc))]
  /\ UNCHANGED << session, answers, idx, wd, logCur >>

\* Lines 290-307: install the runtimes when ~/.local/bin/mise is there.
MiseTools ==
  /\ pc = "MiseTools"
  /\ IF fs.miseBin
       THEN \E o1, o2, o3 \in CoreOutcomes(TRUE) :
              run_command(<< CmdOn("mise install", "java@lts", o1),
                             CmdOn("mise install", "dotnet@10", o2),
                             CmdOn("mise install", "python@latest", o3) >>, {"mise is installed."},
                          << {}, {}, {"Successfully installed Java LTS, .NET 10, and Python latest using mise."} >>,
                          "Docker")
       ELSE Advance({"mise is not found. Please check the installation."}, "Docker")
  /\ UNCHANGED << session, answers, idx, wd, fs, logCur, did, found >>

\* Lines 311-324.
Docker ==
  /\ pc = "Docker"
  /\ \E o1, o2, o3, o4 \in CoreOutcomes(TRUE) :
       run_command(<< CmdOn("pacman -S", "docker docker-compose", o1),
                      CmdOn("systemctl", "start docker", o2),
                      CmdOn("systemctl", "enable docker", o3),
                      CmdOn("usermod -aG docker", current_username, o4) >>, {},
                   << {"Successfully installed Docker and Docker Compose."}, {},
                      {"Successfully started and enabled Docker service."},
                      {"Successfully added user to docker group."} >>,
                   "LazyTools")
  /\ UNCHANGED << session, answers, idx, wd, fs, logCur, did, found >>

\* Lines 328-344: the result of neovimInit.sh is checked and logged as it went.
LazyTools ==
  /\ pc = "LazyTools"
  /\ \E o1 \in CoreOutcomes(TRUE), o2 \in CoreOutcomes("neovimInit.sh" \in wd) :
       /\ run_command(<< CmdOn("pacman -S", "lazygit lazydocker", o1),
                         CmdIf("neovimInit.sh" \in wd, "sh neovimInit.sh", "", o2) >>, {},
                      << {"Successfully installed Lazygit and Lazydocker."},
                         IF o2 # "ok"
                           THEN {"Error configuring Lazygit and Lazydocker in Neovim with LazyVim"}
                           ELSE {"Successfully configured Lazygit and Lazydocker in Neovim with LazyVim."} >>,
                      "Flatpak")
  /\ UNCHANGED << session, answers, idx, wd, fs, logCur, did, found >>

\* Lines 348-371: `which flatpak` and `flatpak remotes` decide what is added.
Flatpak ==
  /\ pc = "Flatpak"
  /\ IF "flatpak" \notin fs.bins
       THEN \E o1 \in CoreOutcomes(TRUE), o2 \in {"ok", "fail"} :
              /\ o2 \in CoreOutcomes(o1 = "ok")
              /\ run_command(<< CmdOn("pacman -S", "flatpak", o1),
                                CmdIf(o1 = "ok", "flatpak remote-add --if-not-exists flathub", "", o2) >>,
                             {},
                             << {"Successfully installed Flatpak."},
                                {"Successfully added Flathub repository for Flatpak."} >>,
                             "AppSelection")
              /\ fs' = [fs EXCEPT !.bins = IF o1 = "ok" THEN @ \cup Provides("flatpak") ELSE @,
                                  !.flathub = (@ \/ o2 = "ok")]
       ELSE IF ~fs.flathub
         THEN \E o \in CoreOutcomes(TRUE) :
                /\ run_command(<< Cmd("flatpak remote-add --if-not-exists flathub", o) >>,
                               {"Flatpak is already installed."},
                               << {"Successfully added Flathub repository for Flatpak."} >>,
                               "AppSelection")
                /\ fs' = [fs EXCEPT !.flathub = (o = "ok")]
         ELSE /\ Advance({"Flatpak is already installed.",
                          "Flathub repository is already added for Flatpak."}, "AppSelection")
              /\ UNCHANGED fs
  /\ UNCHANGED << session, answers, idx, wd, logCur, did, found >>

\* Lines 19-23: the prompt is shown, the answer logged and returned stripped.
get_user_input(prompt, typed) ==
  /\ prompts' = Append(prompts, prompt)
  /\ user_input' = typed
  /\ write_log

\* Lines 375-394: the operator's answer to the numbered menu of native_apps.
AppSelection(typed) ==
  /\ pc = "AppSelection"
  /\ get_user_input("Your selection: ", typed)
  /\ user_selection' = Strip(typed)
  /\ IF Lower(Strip(typed)) # << "a", "l", "l" >> /\ SelectionRaises(Strip(typed))
       THEN /\ Raise("ValueError: int()", {"Prepared list of native applications to install"})
            /\ UNCHANGED << selected_apps, idx >>
       ELSE /\ selected_apps' = SelectedApps(Strip(typed))
            /\ idx' = 1
            /\ Advance({"Prepared list of native applications to install",
                        "User selected the following applications for installation"},
                       IF SelectedApps(Strip(typed)) = << >> THEN "YayApps" ELSE "AppInstall")
  /\ UNCHANGED << session, git_identity, wd, fs, did, found >>

AppMsg ==
  [i \in DOMAIN selected_apps |-> {"Successfully installed " \o selected_apps[i] \o "."}]

\* Lines 395-399.
AppInstall == InstallLoop("AppInstall", selected_apps, AppMsg, {}, "YayApps")

\* Lines 403-411: yay is run without sudo.
YayApps ==
  /\ pc = "YayApps"
  /\ \E o1, o2 \in ExecOutcomes(fs.bins, "yay", TRUE) :
       run_command(<< CmdIf("yay" \in fs.bins, "yay -S", "visual-studio-code-bin", o1),
                      CmdIf("yay" \in fs.bins, "yay -S", "google-chrome", o2) >>, {},
                   << {"Successfully installed Visual Studio Code."},
                      {"Successfully installed Google Chrome."} >>,
                   "Kitty")
  /\ UNCHANGED << session, answers, idx, wd, fs, logCur, did, found >>

\* Lines 415-432: move an existing kitty.conf to a backup, copy the
\* configuration and the theme over.
Kitty ==
  /\ pc = "Kitty"
  /\ \E timestamp \in date, o1 \in CoreOutcomes("kitty.conf" \in wd),
        o2 \in CoreOutcomes("current-theme.conf" \in wd) :
       LET renamed == fs.kittyConf # Absent
           cmds == << CmdIf("kitty.conf" \in wd, "cp kitty.conf", "", o1),
                      CmdIf("current-theme.conf" \in wd, "cp current-theme.conf", "", o2) >>
       IN
       /\ now' = IF renamed THEN timestamp ELSE now
       /\ renamed \/ timestamp = now
       /\ Step(IF renamed THEN {"os.rename kitty.conf"} ELSE {}, cmds, {},
               << {"Successfully configured Kitty terminal."},
                  {"Successfully copied current-theme.conf to Kitty configuration directory."} >>,
               "Gnome")
       /\ fs' = [fs EXCEPT
                   !.kittyBak = IF renamed THEN BackedUp(@, timestamp, fs.kittyConf) ELSE @,
                   !.kittyConf = IF o1 = "ok" THEN << "template" >> ELSE Absent]
       /\ earlier' = [earlier EXCEPT !.kitty = IF renamed THEN @ \cup {fs.kittyConf} ELSE @]
  /\ UNCHANGED << run, tmplHasPath, environ, gnomeShell, logRot, lost, prevDone,
                  answers, idx, wd, logCur, did, found >>

\* "GNOME" in os.environ.get("XDG_CURRENT_DESKTOP", "")
GnomeDetected ==
  environ.XDG_CURRENT_DESKTOP \in {"GNOME", "ubuntu:GNOME"}

\* Lines 436-451.
Gnome ==
  /\ pc = "Gnome"
  /\ IF GnomeDetected
       THEN \E o \in CoreOutcomes("gnomeConfig.sh" \in wd) :
              /\ run_command(<< CmdIf("gnomeConfig.sh" \in wd, "sh gnomeConfig.sh", "", o) >>,
                             {"GNOME desktop environment detected."},
                             << IF o # "ok"
                                  THEN {"Error configuring GNOME"}
                                  ELSE {"Successfully configured GNOME settings, extensions, and keybindings."} >>,
                             "Cleanup")
       ELSE Advance({"No GNOME desktop environment detected. Skipping GNOME configuration."},
                    "Cleanup")
  /\ UNCHANGED << session, answers, idx, wd, fs, logCur, did, found >>

\* Lines 453-454.
Cleanup ==
  /\ pc = "Cleanup"
  /\ \E o \in CoreOutcomes(TRUE) :
       run_command(<< Cmd("pacman -Sc", o) >>, {}, << {} >>, "RebootPrompt")
  /\ UNCHANGED << session, answers, idx, wd, fs, logCur, did, found >>

\* Lines 456-460: reboot when the stripped answer is "y" in either case.
RebootPrompt(typed) ==
  /\ pc = "RebootPrompt"
  /\ get_user_input("Do you want to restart now? (y/n): ", typed)
  /\ IF Lower(Strip(typed)) = << "y" >>
       THEN \E o \in CoreOutcomes(TRUE) :
              run_command(<< Cmd("reboot", o) >>, {}, << {} >>, "done")
       ELSE Advance({}, "done")
  /\ UNCHANGED << session, git_identity, user_selection, selected_apps, idx, wd, fs, did, found >>

\* What the operator types at the application menu in a full run.
MenuAnswers ==
  { << >>,
    << "1", ",", "3" >>,
    << " ", "A", "l", "L", " " >>,
    << "9", ",", "a", "b", "c" >>,
    << "²" >> }

\* What the operator types at the reboot prompt.
RebootAnswers == { << "y" >>, << " ", "Y" >>, << "n" >>, << >> }

Next ==
  \/ LogSetup
  \/ SystemUpdate
  \/ DevTools
  \/ GitIdentity
  \/ SshCheck
  \/ SshKeygen
  \/ ReadPubKey
  \/ Fonts
  \/ ZshInstall
  \/ OhMyZsh
  \/ Chsh
  \/ TerminalTools
  \/ Starship
  \/ ZshPlugins
  \/ NeovimInstall
  \/ LazyVimClone
  \/ LazyVimRemoveGit
  \/ NeovimSync
  \/ Mise
  \/ ZshrcReplace
  \/ PathAppend
  \/ MiseTools
  \/ Docker
  \/ LazyTools
  \/ Flatpak
  \/ \E typed \in MenuAnswers : AppSelection(typed)
  \/ AppInstall
  \/ YayApps
  \/ Kitty
  \/ Gnome
  \/ Cleanup
  \/ \E typed \in RebootAnswers : RebootPrompt(typed)

Spec == Init /\ [][Next]_vars

\* -------------------------------------------- the application menu alone

\* The characters the operator's answer to the menu is made of.
Alphabet == {"a", "l", "A", "L", "x", " ", ",", "0", "1", "3", "²"}

RECURSIVE Strings(_)
Strings(n) ==
  IF n = 0 THEN { << >> }
  ELSE LET shorter == Strings(n - 1) IN
       shorter \cup {Append(str, ch) : str \in shorter, ch \in Alphabet}

\* Every answer of up to MaxInputLen characters.
TypedInputs == Strings(MaxInputLen)

\* The script at the application menu, in a first run on a freshly installed
\* machine in which every command so far exited 0.
SelInit ==
  /\ pc = "AppSelection"
  /\ idx = 0
  /\ run = 1
  /\ now = 0
  /\ wd = RequiredFiles \cup {"mise-install.sh"}
  /\ tmplHasPath = FALSE
  /\ environ = [USER |-> "alice", SUDO_USER |-> Unset, XDG_CURRENT_DESKTOP |-> "GNOME"]
  /\ gnomeShell = TRUE
  /\ logCur = LogOf(1)
  /\ logRot = NoBackups
  /\ fs = [FreshMachine EXCEPT
             !.bins = {"curl", "yay", "git", "ssh", "ssh-keygen", "zsh", "starship",
                       "nvim", "flatpak"},
             !.sshKey = PlaceholderEmail,
             !.sshPub = TRUE,
             !.gitUser = [name |-> PlaceholderName, email |-> PlaceholderEmail],
             !.flathub = TRUE,
             !.omzDir = TRUE,
             !.loginShell = "zsh",
             !.plugins = {PluginNames[i] : i \in DOMAIN PluginNames},
             !.nvimDir = "plain",
             !.miseBin = TRUE,
             !.zshrc = << "template", PathLine >>]
  /\ issued = { "pacman -Syu", "yay -Syu", "pacman -S", "git config --global",
                KeygenCmd, SshAddCmd, "bash -c ohmyzsh/install.sh --unattended",
                ChshCmd, "starship preset pure-preset", PluginCloneCmd,
                LazyVimCloneCmd, "rm -rf .config/nvim/.git",
                "nvim --headless +Lazy! sync",
                "curl https://mise.run -o mise-install.sh", "sh mise-install.sh",
                "cp zshrc", "zsh -c source .zshrc && which mise", "append .zshrc",
                "mise install", "systemctl", "usermod -aG docker",
                "sh neovimInit.sh", "flatpak remote-add --if-not-exists flathub" }
  /\ results = << CmdOn("pacman -S", "flatpak", "ok"),
                  Cmd("flatpak remote-add --if-not-exists flathub", "ok") >>
  /\ logged = {"Successfully installed Flatpak.",
               "Successfully added Flathub repository for Flatpak."}
  /\ prompts = << >>
  /\ git_identity = [name |-> PlaceholderName, email |-> PlaceholderEmail]
  /\ user_selection = << >>
  /\ selected_apps = << >>
  /\ fault = "none"
  /\ nonzero = FALSE
  /\ cleanSoFar = TRUE
  /\ failures = 0
  /\ prevDone = FALSE
  /\ did = [s \in GuardedSteps |-> 1]
  /\ found = [s \in ConditionalSteps |-> Absent]
  /\ lost = {}
  /\ user_input = << >>
  /\ earlier = [zshrc |-> {}, kitty |-> {}]

SelNext ==
  \/ \E typed \in TypedInputs : AppSelection(typed)
  \/ AppInstall

SelSpec == SelInit /\ [][SelNext]_vars

\* ---------------------------------------------------------- properties

Range(f) == {f[i] : i \in DOMAIN f}

\* The commands that install or upgrade packages.
PackageManagerCmds == {"pacman -Syu", "yay -Syu", "pacman -S", "yay -S", "pacman -Sc"}

\* The commands and operations that write the user's files.
FileMutations ==
  { KeygenCmd, "bash -c ohmyzsh/install.sh --unattended", PluginCloneCmd,
    LazyVimCloneCmd, "rm -rf .config/nvim/.git", "os.rename .zshrc", "cp zshrc",
    "append .zshrc", "os.rename kitty.conf", "cp kitty.conf", "cp current-theme.conf" }

\* C1: when an auxiliary file the script needs (zshrc, kitty.conf,
\* current-theme.conf, neovimInit.sh, gnomeConfig.sh) is missing from the
\* working directory, the run issues no package-manager command and writes
\* none of the user's files.
C1_PreflightBeforeAnyAction ==
  (RequiredFiles \ wd # {}) => (issued \cap (PackageManagerCmds \cup FileMutations) = {})

\* C2: over a run, or over two runs in succession of which the first reached
\* the end, with every command succeeding (bar clones of what is already
\* there), each guarded step's mutating action is performed at most once.
C2_GuardedActionAtMostOnce ==
  (cleanSoFar /\ (run = 1 \/ (run = 2 /\ prevDone)))
    => \A s \in GuardedSteps : did[s] <= 1

\* What a second run must not do on a machine the first run provisioned.
DuplicateOrDestructive ==
  { PluginCloneCmd, ChshCmd, "os.rename .zshrc", "cp zshrc",
    "os.rename kitty.conf", "cp kitty.conf", "rm -rf .config/nvim/.git" }

\* C3: a second run, after a first run that reached the end with every command
\* succeeding, issues no plugin clone, no chsh, no rename or replacement of
\* .zshrc or kitty.conf, and deletes nothing.
C3_SecondRunOnlyRechecks ==
  (run = 2 /\ prevDone /\ cleanSoFar) => (issued \cap DuplicateOrDestructive = {})

\* C4: rotating the log never destroys log content, also when two rotations
\* happen within the same second.
C4_NoLogContentLost == lost = {}

\* A token that is a decimal numeral.
Numeral(x) == x # << >> /\ \A i \in DOMAIN x : x[i] \in AsciiDigits

\* The applications an answer asks for: all of them for "all" in any letter
\* case, else those whose 1-based index is one of the comma-separated numerals.
Wanted(selection) ==
  IF Lower(selection) = << "a", "l", "l" >>
    THEN Range(native_apps)
    ELSE { native_apps[n] : n \in { k \in DOMAIN native_apps :
             \E i \in DOMAIN Split(selection) :
               /\ Numeral(Strip(Split(selection)[i]))
               /\ int(Strip(Split(selection)[i])) = k } }

\* C5: once the operator has answered the application menu, the script has not
\* raised, the applications selected are exactly those the answer asks for,
\* and with none selected no application install is started.
C5_SelectionParsed ==
  (prompts # << >> /\ prompts[Len(prompts)] = "Your selection: ")
    => /\ fault # "ValueError: int()"
       /\ Range(selected_apps) = Wanted(user_selection)
       /\ selected_apps = << >> => pc # "AppInstall"

\* C6: when the private key was there as the run reached the SSH step, the run
\* issues neither ssh-keygen nor ssh-add and the key stays as it was.
C6_ExistingKeyUntouched ==
  found["ssh-keygen"] \notin {"unreached", Absent}
    => /\ fs.sshKey = found["ssh-keygen"]
       /\ KeygenCmd \notin issued
       /\ SshAddCmd \notin issued

\* A run that found a key of the operator's own in place has reached the end.
C6_Witness ==
  /\ pc = "done"
  /\ found["ssh-keygen"] = "pre"
  /\ fs.sshKey = "pre"

IdentityQuestion == "Use the placeholder GIT identity? (y/n): "

\* C7: the git identity is fixed only after the operator was asked, yes or no,
\* whether to use the placeholder identity.
C7_IdentityAsked ==
  git_identity # NoIdentity => IdentityQuestion \in Range(prompts)

\* C8: a run in which a command exited non-zero does not end in an uncaught
\* exception (other than over the operator's menu answer): every later step
\* is still reached.
C8_FailedCommandNonFatal ==
  (nonzero /\ fault # "ValueError: int()") => pc # "crashed"

\* C9: no run ends in an uncaught exception.
C9_NoUncaughtFault == fault = "none"

\* The command or file operation each conditional step exists to perform.
MutatingAction(s) ==
  CASE s = "ssh-keygen" -> KeygenCmd
    [] s = "oh-my-zsh" -> "bash -c ohmyzsh/install.sh --unattended"
    [] s = "chsh" -> ChshCmd
    [] s = "lazyvim" -> LazyVimCloneCmd
    [] s = "path-append" -> "append .zshrc"

\* C10: for each of SSH key generation, Oh My Zsh installation, the change of
\* login shell, the LazyVim clone and the PATH append, a run that found the
\* step's effect in place when it reached the step does not issue the step's
\* mutating action.
C10_GuardBeforeActionUniform ==
  \A s \in ConditionalSteps :
    found[s] \notin {"unreached", Absent} => MutatingAction(s) \notin issued

\* The success lines a step writes about a command.
SuccessLines(r) ==
  CASE r.c = "pacman -S" ->
         {"Installed " \o r.a \o " successfully.", "Successfully installed " \o r.a \o "."}
    [] r.c = "bash -c ohmyzsh/install.sh --unattended" ->
         {"Successfully installed Oh My Zsh."}
    [] r.c = ChshCmd ->
         {"Successfully installed Zsh and Oh My Zsh, and set Zsh as the default shell."}
    [] r.c = "cp zshrc" -> {"Successfully configured Zsh with custom .zshrc."}
    [] r.c = "cp kitty.conf" -> {"Successfully configured Kitty terminal."}
    [] OTHER -> {}

\* C11: a step writes the success line about a command only if that command
\* exited 0.
C11_SuccessLoggedOnlyOnSuccess ==
  \A i \in DOMAIN results :
    (SuccessLines(results[i]) \cap logged # {}) => results[i].o = "ok"

\* C12: once the desktop step is over, gnomeConfig.sh has been invoked exactly
\* if XDG_CURRENT_DESKTOP names GNOME or gnome-shell resolves on the search
\* path, and the run has gone on to cleanup.
C12_GnomeBranch ==
  pc \in {"Cleanup", "RebootPrompt", "done"}
    => ("sh gnomeConfig.sh" \in issued <=> (GnomeDetected \/ gnomeShell))

\* The user the per-user paths should belong to: SUDO_USER when set, else
\* USER, else the fixed default.
ResolvedUser ==
  IF environ.SUDO_USER # Unset THEN environ.SUDO_USER
  ELSE IF environ.USER # Unset THEN environ.USER
  ELSE "default_user"

\* C13: the key pair is generated under, and the zshrc template copied into,
\* the home directory of the resolved user.
C13_PerUserPathsOfResolvedUser ==
  \A i \in DOMAIN results :
    /\ results[i].c = KeygenCmd
         => results[i].a = "/home/" \o ResolvedUser \o "/.ssh/id_ed25519"
    /\ results[i].c = "cp zshrc"
         => results[i].a = "/home/" \o ResolvedUser \o "/.zshrc"

RebootQuestion == "Do you want to restart now? (y/n): "

\* C14: the reboot prompt is shown only after pacman -Sc was issued; once it is
\* answered the run is over, and reboot was issued exactly if the answer,
\* trimmed, is y or Y.
C14_TerminalOrdering ==
  /\ RebootQuestion \in Range(prompts)
       => /\ pc = "done"
          /\ "pacman -Sc" \in issued
          /\ "reboot" \in issued <=> Strip(user_input) \in { << "y" >>, << "Y" >> }
  /\ "reboot" \in issued => RebootQuestion \in Range(prompts)

\* A run ended in a reboot asked for with blanks and a capital letter.
C14_Witness ==
  /\ pc = "done"
  /\ user_input = << " ", "Y" >>
  /\ "reboot" \in issued
  /\ "pacman -Sc" \in issued

\* C15: every version of .zshrc and of kitty.conf that was renamed away is
\* still held by some backup file.
C15_EarlierVersionsRetained ==
  /\ \A v \in earlier.zshrc : \E t \in Times : v = fs.zshrcBak[t]
  /\ \A v \in earlier.kitty : \E t \in Times : v = fs.kittyBak[t]

====
